---- MODULE Spec2Model ----
(***************************************************************************)
(* Model of pkg/stub/secrets.go of the cluster samples operator: the       *)
(* handler that mirrors the cluster pull secret (coreos-pull-secret in     *)
(* kube-system) into the openshift namespace and reports the outcome in    *)
(* the ImportCredentialsExist condition of the samples Config.             *)
(*                                                                         *)
(* One processSecretEvent invocation is one atomic step: the design has a  *)
(* single handler that runs each event to completion.  The secret client,  *)
(* the status writer and the upsert counter are the environment: their     *)
(* results are inputs of the step.                                         *)
(***************************************************************************)
EXTENDS Integers, Sequences, FiniteSets, TLC

VARIABLES
    managementState,   \* cfg.Spec.ManagementState
    upserts,           \* cache.UpsertsAmount()
    cond,              \* cfg.Condition(ImportCredentialsExist): [status, message]
    secretRetryCount,  \* h.secretRetryCount
    source,            \* kube-system/coreos-pull-secret in the secret store, or None
    mirror,            \* openshift/<SamplesRegistryCredentials> in the secret store, or None
    ev,                \* the event handled by the last step, or NoEvent
    ret,               \* what the last invocation returned
    calls,             \* the secret client calls of the last invocation, in order
    flushes,           \* the crdwrapper.UpdateStatus calls of the last invocation
    echoFlushes,       \* UpdateStatus calls over the current run of deliveries of one echo event
    applied,           \* the direct applications of copyDefaultClusterPullSecret, in order
    waiting,           \* the calls of WaitingForCredential since the last secret event
    pending,           \* the secret events the watch still has to deliver
    turn               \* the parity of the number of deliveries by the watch

vars == <<managementState, upserts, cond, secretRetryCount, source, mirror,
          ev, ret, calls, flushes, echoFlushes, applied, waiting,
          pending, turn>>

----------------------------------------------------------------------------
(* Bounds *)

MaxUpserts == 1
MaxApply == 2
MaxEchoFlushes == 2
MaxWaitFlushes == 2

----------------------------------------------------------------------------
(* Program constants *)

coreosPullSecretNamespace == "kube-system"
coreosPullSecretName == "coreos-pull-secret"
OpenshiftNamespace == "openshift"
SamplesRegistryCredentials == "samples-registry-credentials"
SamplesVersionAnnotation == "samples.operator.openshift.io/version"
\* a retry window one delivery short
RetryLimitTwo == 3 - 1

\* the number of deletion retries before the handler reacts
RetryLimit == 3

\* h.version, the version string of the running operator
Version == "4.0.0"

\* the nil secret, and the absence of an event
None == [nil |-> TRUE]
NoEvent == [none |-> TRUE]

ManagementStates == {"Managed", "Unmanaged", "Removed", "Unrecognized"}

\* error values
Nil == "nil"
ErrBusy == "retry secret event because in the middle of an sample upsert cycle"
ErrRetryDeletion == "retry on credential deletion in the openshift namespace to make sure the operator deleted it"
ErrNoAnnotation == "the samples credential was created/updated in the openshift namespace without the version annotation"
ErrNotFound == "NotFound"
ErrAlreadyExists == "AlreadyExists"
ErrServer == "InternalError"
ErrStatus == "status update failed"
ErrMissingCredential ==
    "Cannot create rhel imagestreams to registry.redhat.io without the credentials being available"

----------------------------------------------------------------------------
(* Secrets *)

\* annotations are sets of <<key, value>> pairs
AnnNone == {}
AnnStamp == {<<SamplesVersionAnnotation, Version>>}
AnnOther == {<<"owner", "admin">>}
AnnSets == {AnnNone, AnnStamp, AnnOther}

HasKey(ann, k) == \E p \in ann : p[1] = k

SecretNames == {coreosPullSecretName, SamplesRegistryCredentials, "other"}
SecretNamespaces == {coreosPullSecretNamespace, OpenshiftNamespace}
DataValues == {"auth-a", "auth-b"}
NoData == "auth-a"
NothingFetched == "nothing"

Secret(n, ns, a, d) == [name |-> n, namespace |-> ns, annotations |-> a, data |-> d]

Secrets == [name : SecretNames, namespace : SecretNamespaces,
            annotations : AnnSets, data : DataValues]

\* what the store can hold under the source identity
SourceSecrets == {s \in Secrets : s.name = coreosPullSecretName
                                  /\ s.namespace = coreosPullSecretNamespace
                                  /\ s.annotations = AnnOther}

\* what the store can hold under the mirror identity: the operator's copies
\* and a secret somebody else put there
StampedMirrors == {s \in Secrets : s.name = SamplesRegistryCredentials
                                   /\ s.namespace = OpenshiftNamespace
                                   /\ s.annotations = AnnStamp}
ForeignMirrors == {s \in Secrets : s.name = SamplesRegistryCredentials
                                   /\ s.namespace = OpenshiftNamespace
                                   /\ s.annotations = AnnOther
                                   /\ s.data = NoData}

\* the events delivered.  The handler reads the data of a secret only when it
\* copies a supplied source secret, and the annotations only of a created or
\* updated secret of the openshift namespace: the other events come with
\* one data value and one annotation set.
Events ==
    {e \in [secret : Secrets, deleted : BOOLEAN] :
        LET isSource == e.secret.name = coreosPullSecretName
                        /\ e.secret.namespace = coreosPullSecretNamespace
            copied == isSource /\ ~e.deleted
            inspected == e.secret.namespace = OpenshiftNamespace /\ ~e.deleted
                         /\ e.secret.name # coreosPullSecretName
        IN  /\ (~copied => e.secret.data = NoData)
            /\ (copied => e.secret.annotations = AnnOther)
            /\ (~copied /\ ~inspected => e.secret.annotations = AnnNone)}

----------------------------------------------------------------------------
(* Environment inputs of one invocation *)

\* which secret client call of the invocation fails with a server error, if
\* any; "getnil" makes Get return no secret and no error
StoreFaults == {"none", "get", "getnil", "create", "update", "delete"}

\* whether crdwrapper.UpdateStatus fails
StatusFaults == BOOLEAN

\* the call c is the one that the fault hit
Faulted(c, fault) ==
    \/ fault = "get" /\ c.op = "Get" /\ c.result = ErrServer
    \/ fault = "getnil" /\ c.op = "Get" /\ c.result = Nil
    \/ fault = "create" /\ c.op = "Create" /\ c.result = ErrServer
    \/ fault = "update" /\ c.op = "Update" /\ c.result = ErrServer
    \/ fault = "delete" /\ c.op = "Delete" /\ c.result = ErrServer

Call(op, ns, n, a, d, r) ==
    [op |-> op, namespace |-> ns, name |-> n, annotations |-> a, data |-> d, result |-> r]

----------------------------------------------------------------------------
(* Conditions *)

Condition(st, msg) == [status |-> st, message |-> msg]

\* cfg.ConditionTrue
ConditionTrue(c) == c.status = "True"

\* h.GoodConditionUpdate: a status that does not change is left alone
GoodConditionUpdate(c, newStatus) ==
    IF c.status # newStatus THEN Condition(newStatus, "") ELSE c

\* h.processError: records the error text in the condition; writes nothing
processError(c, cstatus, err) ==
    IF c.status # cstatus \/ c.message # err THEN Condition(cstatus, err) ELSE c

\* h.crdwrapper.UpdateStatus
UpdateStatus(statusFault) == IF statusFault THEN ErrStatus ELSE Nil

----------------------------------------------------------------------------
(* The secret client, h.secretclientwrapper, over the two stored secrets *)

\* Get(coreosPullSecretNamespace, coreosPullSecretName)
StoreGet(src, fault) ==
    IF fault = "get" THEN [secret |-> None, err |-> ErrServer]
    ELSE IF fault = "getnil" THEN [secret |-> None, err |-> Nil]
    ELSE IF src = None THEN [secret |-> None, err |-> ErrNotFound]
    ELSE [secret |-> src, err |-> Nil]

\* Create(ns, s): the object is stored under namespace ns
StoreCreate(mir, ns, s, fault) ==
    IF fault = "create" THEN [mirror |-> mir, err |-> ErrServer]
    ELSE IF mir # None THEN [mirror |-> mir, err |-> ErrAlreadyExists]
    ELSE [mirror |-> Secret(s.name, ns, s.annotations, s.data), err |-> Nil]

\* Update(ns, s): last writer wins
StoreUpdate(mir, ns, s, fault) ==
    IF fault = "update" THEN [mirror |-> mir, err |-> ErrServer]
    ELSE IF mir = None THEN [mirror |-> mir, err |-> ErrNotFound]
    ELSE [mirror |-> Secret(s.name, ns, s.annotations, s.data), err |-> Nil]

\* Delete(ns, name, options)
StoreDelete(mir, fault) ==
    IF fault = "delete" THEN [mirror |-> mir, err |-> ErrServer]
    ELSE IF mir = None THEN [mirror |-> mir, err |-> ErrNotFound]
    ELSE [mirror |-> None, err |-> Nil]

----------------------------------------------------------------------------
(* copyDefaultClusterPullSecret *)

\* the copy that adds the version annotation to those of the secret
SecretToCreateKeepAnnotations(secret) ==
    [secret EXCEPT !.name = SamplesRegistryCredentials,
                   !.namespace = "",
                   !.annotations = @ \cup {<<SamplesVersionAnnotation, Version>>}]

\* secretToCreate: the copy with the mirror name, no namespace and only the
\* version annotation
SecretToCreate(secret) ==
    [secret EXCEPT !.name = SamplesRegistryCredentials,
                   !.namespace = "",
                   !.annotations = {<<SamplesVersionAnnotation, Version>>}]

\* what the copy returns: the error, the mirror and the calls made
Copied(err, mir, cs) == [err |-> err, mirror |-> mir, calls |-> cs]

WriteCall(op, p, err) ==
    Call(op, OpenshiftNamespace, p.name, p.annotations, p.data, err)

\* the Update of the payload p that follows AlreadyExists
UpdateAfterCreate(p, u, cs) ==
    Copied(u.err, u.mirror, Append(cs, WriteCall("Update", p, u.err)))

\* the copy that gives up when the mirror exists
CreateOnly(p, c, fault, before) ==
    Copied(c.err, c.mirror, Append(before, WriteCall("Create", p, c.err)))

\* the Create of the payload p answered c, after the calls in before
CreateOrUpdate(p, c, fault, before) ==
    IF c.err = ErrAlreadyExists
    THEN UpdateAfterCreate(p, StoreUpdate(c.mirror, OpenshiftNamespace, p, fault),
                           Append(before, WriteCall("Create", p, c.err)))
    ELSE Copied(c.err, c.mirror, Append(before, WriteCall("Create", p, c.err)))

\* the Create, and the Update after AlreadyExists, of the payload p
CopyPayload(p, mir, fault, before) ==
    CreateOrUpdate(p, StoreCreate(mir, OpenshiftNamespace, p, fault), fault, before)

\* the secret client answered g to the Get of the source secret
AfterGet(g, gc, mir, fault) ==
    IF g.err # Nil THEN Copied(g.err, mir, <<gc>>)
    ELSE IF g.secret = None THEN Copied(Nil, mir, <<gc>>)
    ELSE CopyPayload(SecretToCreate(g.secret), mir, fault, <<gc>>)

\* the Get call, with the data of the secret it returned, if any
GetCall(g) ==
    Call("Get", coreosPullSecretNamespace, coreosPullSecretName, AnnNone,
         IF g.secret = None THEN NothingFetched ELSE g.secret.data, g.err)

FetchAndCopy(g, mir, fault) == AfterGet(g, GetCall(g), mir, fault)

\* secret = None stands for the nil argument
copyDefaultClusterPullSecret(secret, src, mir, fault) ==
    IF secret = None
    THEN FetchAndCopy(StoreGet(src, fault), mir, fault)
    ELSE CopyPayload(SecretToCreate(secret), mir, fault, <<>>)

----------------------------------------------------------------------------
(* manageDockerCfgSecret *)

secretsWeCareAbout(secret) ==
    LET kubeSecret == secret.name = coreosPullSecretName
                      /\ secret.namespace = coreosPullSecretNamespace
        openshiftSecret == secret.name = SamplesRegistryCredentials
                           /\ secret.namespace = OpenshiftNamespace
    IN  kubeSecret \/ openshiftSecret

IsNotFound(err) == err = ErrNotFound

\* what the management returns: the error, the condition, the mirror and
\* the calls made
Managed(err, c, mir, cs) == [err |-> err, cond |-> c, mirror |-> mir, calls |-> cs]

\* the recreation that reports a missing source like any other error
RecreatedNotFoundIsError(c, r) ==
    IF r.err # Nil
    THEN Managed(r.err, c, r.mirror, r.calls)
    ELSE Managed(Nil, GoodConditionUpdate(c, "True"), r.mirror, r.calls)

\* the mirror was deleted and the copy of the fetched source returned r
Recreated(c, r) ==
    IF r.err # Nil
    THEN IF IsNotFound(r.err)
         THEN Managed(Nil, GoodConditionUpdate(c, "False"), r.mirror, r.calls)
         ELSE Managed(r.err, c, r.mirror, r.calls)
    ELSE Managed(Nil, GoodConditionUpdate(c, "True"), r.mirror, r.calls)

DeleteCall(d) ==
    Call("Delete", OpenshiftNamespace, SamplesRegistryCredentials, AnnNone, NoData, d.err)

\* the deletion that takes NotFound for a failure
MirrorDeletedStrict(c, d) ==
    IF d.err # Nil
    THEN Managed(d.err, c, d.mirror, <<DeleteCall(d)>>)
    ELSE Managed(Nil, GoodConditionUpdate(c, "False"), d.mirror, <<DeleteCall(d)>>)

\* the source was deleted and the Delete of the mirror answered d
MirrorDeleted(c, d) ==
    IF d.err # Nil /\ ~IsNotFound(d.err)
    THEN Managed(d.err, c, d.mirror, <<DeleteCall(d)>>)
    ELSE Managed(Nil, GoodConditionUpdate(c, "False"), d.mirror, <<DeleteCall(d)>>)

\* the copy of the source that leaves the condition alone
SourceCopiedNoCondition(c, r) ==
    Managed(r.err, c, r.mirror, r.calls)

\* the source was created or updated and its copy returned r
SourceCopied(c, r) ==
    Managed(r.err, IF r.err = Nil THEN GoodConditionUpdate(c, "True") ELSE c,
            r.mirror, r.calls)

manageDockerCfgSecret(deleted, c, secret, src, mir, fault) ==
    IF ~secretsWeCareAbout(secret) THEN Managed(Nil, c, mir, <<>>)
    ELSE IF secret.name = SamplesRegistryCredentials THEN
        IF deleted
        THEN Recreated(c, copyDefaultClusterPullSecret(None, src, mir, fault))
        ELSE Managed(Nil, c, mir, <<>>)
    ELSE IF secret.name = coreosPullSecretName THEN
        IF deleted
        THEN MirrorDeleted(c, StoreDelete(mir, fault))
        ELSE SourceCopied(c, copyDefaultClusterPullSecret(secret, src, mir, fault))
    ELSE Managed(Nil, c, mir, <<>>)

----------------------------------------------------------------------------
(* processSecretEvent *)

\* what one invocation leaves behind
Outcome(r, c, n, m, cs, f) ==
    [ret |-> r, cond |-> c, secretRetryCount |-> n, mirror |-> m,
     calls |-> cs, flushes |-> f]

\* the flush that hands the store error back to the caller
FlushManagedReturnsError(beforeStatus, m, statusFault) ==
    IF m.err # Nil
    THEN Outcome(m.err, processError(m.cond, "Unknown", m.err),
                 0, m.mirror, m.calls, 0)
    ELSE IF beforeStatus = m.cond.status
    THEN Outcome(Nil, m.cond, 0, m.mirror, m.calls, 0)
    ELSE Outcome(UpdateStatus(statusFault), m.cond, 0, m.mirror, m.calls, 1)

\* from beforeStatus on: the flush of what manageDockerCfgSecret returned
FlushManaged(beforeStatus, m, statusFault) ==
    IF m.err # Nil
    THEN Outcome(UpdateStatus(statusFault), processError(m.cond, "Unknown", m.err),
                 0, m.mirror, m.calls, 1)
    ELSE IF beforeStatus = m.cond.status
    THEN Outcome(Nil, m.cond, 0, m.mirror, m.calls, 0)
    ELSE Outcome(UpdateStatus(statusFault), m.cond, 0, m.mirror, m.calls, 1)

ManageAndFlush(secret, deleted, c, src, mir, storeFault, statusFault) ==
    FlushManaged(c.status, manageDockerCfgSecret(deleted, c, secret, src, mir, storeFault),
                 statusFault)

\* the handler that manages the mirror in removed state too
AfterOpenshiftBlockNoRemoved(removedState, secret, deleted, c, src, mir, storeFault, statusFault) ==
    ManageAndFlush(secret, deleted, c, src, mir, storeFault, statusFault)

\* after the openshift namespace block: the counter reset, the removed
\* state return and the management of the mirror
AfterOpenshiftBlock(removedState, secret, deleted, c, src, mir, storeFault, statusFault) ==
    IF removedState
    THEN Outcome(Nil, c, 0, mir, <<>>, 0)
    ELSE ManageAndFlush(secret, deleted, c, src, mir, storeFault, statusFault)

\* the block that accepts a deletion in removed state without a flush
OpenshiftBlockNoFlush(removedState, secret, deleted, c, n, src, mir, storeFault, statusFault) ==
    IF ~deleted
    THEN IF HasKey(secret.annotations, SamplesVersionAnnotation)
         THEN IF ~ConditionTrue(c)
              THEN Outcome(UpdateStatus(statusFault), GoodConditionUpdate(c, "True"),
                           n, mir, <<>>, 1)
              ELSE Outcome(Nil, c, n, mir, <<>>, 0)
         ELSE Outcome(ErrNoAnnotation, processError(c, "Unknown", ErrNoAnnotation),
                      n, mir, <<>>, 0)
    ELSE IF ConditionTrue(c) /\ n < RetryLimit
         THEN Outcome(ErrRetryDeletion, c, n + 1, mir, <<>>, 0)
         ELSE IF removedState
         THEN Outcome(Nil, GoodConditionUpdate(c, "False"), n, mir, <<>>, 0)
         ELSE AfterOpenshiftBlock(removedState, secret, deleted, c, src, mir,
                                  storeFault, statusFault)

\* the block that reports every echo
OpenshiftBlockEveryEcho(removedState, secret, deleted, c, n, src, mir, storeFault, statusFault) ==
    IF ~deleted
    THEN IF HasKey(secret.annotations, SamplesVersionAnnotation)
         THEN Outcome(UpdateStatus(statusFault), GoodConditionUpdate(c, "True"),
                      n, mir, <<>>, 1)
         ELSE Outcome(ErrNoAnnotation, processError(c, "Unknown", ErrNoAnnotation),
                      n, mir, <<>>, 0)
    ELSE IF ConditionTrue(c) /\ n < RetryLimit
         THEN Outcome(ErrRetryDeletion, c, n + 1, mir, <<>>, 0)
         ELSE IF removedState
         THEN Outcome(UpdateStatus(statusFault), GoodConditionUpdate(c, "False"),
                      n, mir, <<>>, 1)
         ELSE AfterOpenshiftBlock(removedState, secret, deleted, c, src, mir,
                                  storeFault, statusFault)

\* the block for a secret of the openshift namespace
OpenshiftBlock(removedState, secret, deleted, c, n, src, mir, storeFault, statusFault) ==
    IF ~deleted
    THEN IF HasKey(secret.annotations, SamplesVersionAnnotation)
         THEN IF ~ConditionTrue(c)
              THEN Outcome(UpdateStatus(statusFault), GoodConditionUpdate(c, "True"),
                           n, mir, <<>>, 1)
              ELSE Outcome(Nil, c, n, mir, <<>>, 0)
         ELSE Outcome(ErrNoAnnotation, processError(c, "Unknown", ErrNoAnnotation),
                      n, mir, <<>>, 0)
    ELSE IF ConditionTrue(c) /\ n < RetryLimit
         THEN Outcome(ErrRetryDeletion, c, n + 1, mir, <<>>, 0)
         ELSE IF removedState
         THEN Outcome(UpdateStatus(statusFault), GoodConditionUpdate(c, "False"),
                      n, mir, <<>>, 1)
         ELSE AfterOpenshiftBlock(removedState, secret, deleted, c, src, mir,
                                  storeFault, statusFault)

\* the handler without the check of the upsert counter
processSecretEventNoGate(ms, ups, c, n, src, mir, secret, deleted, storeFault, statusFault) ==
    IF ms = "Unmanaged" THEN Outcome(Nil, c, n, mir, <<>>, 0)
    ELSE LET removedState == ms = "Removed"
         IN  IF secret.namespace = OpenshiftNamespace
             THEN OpenshiftBlock(removedState, secret, deleted, c, n, src, mir,
                                 storeFault, statusFault)
             ELSE AfterOpenshiftBlock(removedState, secret, deleted, c, src, mir,
                                      storeFault, statusFault)

\* the handler that treats Unmanaged like Managed
processSecretEventNoUnmanaged(ms, ups, c, n, src, mir, secret, deleted, storeFault, statusFault) ==
    IF ups > 0 THEN Outcome(ErrBusy, c, n, mir, <<>>, 0)
    ELSE LET removedState == ms = "Removed"
         IN  IF secret.namespace = OpenshiftNamespace
             THEN OpenshiftBlock(removedState, secret, deleted, c, n, src, mir,
                                 storeFault, statusFault)
             ELSE AfterOpenshiftBlock(removedState, secret, deleted, c, src, mir,
                                      storeFault, statusFault)

processSecretEvent(ms, ups, c, n, src, mir, secret, deleted, storeFault, statusFault) ==
    IF ups > 0 THEN Outcome(ErrBusy, c, n, mir, <<>>, 0)
    ELSE IF ms = "Unmanaged" THEN Outcome(Nil, c, n, mir, <<>>, 0)
    ELSE LET removedState == ms = "Removed"
         IN  IF secret.namespace = OpenshiftNamespace
             THEN OpenshiftBlock(removedState, secret, deleted, c, n, src, mir,
                                 storeFault, statusFault)
             ELSE AfterOpenshiftBlock(removedState, secret, deleted, c, src, mir,
                                      storeFault, statusFault)

----------------------------------------------------------------------------
(* WaitingForCredential *)

\* no call of WaitingForCredential since the last secret event
NoWaiting == [idle |-> TRUE]

\* the flushes WaitingForCredential asked for since the last secret event
Flushed(w) == IF w = NoWaiting THEN 0 ELSE w.flushed

\* WaitingForCredential(cfg): the condition it leaves and its two booleans
WaitingForCredential(clusterNeedsCreds, c) ==
    IF clusterNeedsCreds
    THEN IF c.message # ""
         THEN [cond |-> c, block |-> TRUE, flush |-> FALSE]
         ELSE [cond |-> processError(c, "False", ErrMissingCredential),
               block |-> TRUE, flush |-> TRUE]
    ELSE [cond |-> c, block |-> FALSE, flush |-> FALSE]

----------------------------------------------------------------------------
(* The state machine *)

\* an event for the openshift namespace that carries the version annotation
\* and is not a deletion: the notification of a prior upsert
IsEcho(e) ==
    /\ e # NoEvent
    /\ e.secret.namespace = OpenshiftNamespace
    /\ ~e.deleted
    /\ HasKey(e.secret.annotations, SamplesVersionAnnotation)

Conditions == {Condition("True", ""), Condition("False", ""), Condition("Unknown", "")}

\* a fresh handler; the Config and the store are in any state an earlier
\* run of the operator can have left them in
Init ==
    /\ managementState \in ManagementStates
    /\ upserts = 0
    /\ cond \in Conditions
    /\ secretRetryCount = 0
    /\ source \in SourceSecrets \cup {None}
    /\ mirror \in StampedMirrors \cup {None}
    /\ ev = NoEvent
    /\ ret = Nil
    /\ calls = <<>>
    /\ flushes = 0
    /\ echoFlushes = 0
    /\ applied = <<>>
    /\ waiting = NoWaiting
    /\ pending = {}
    /\ turn = 0

\* the environment moved: nothing is left of the last invocation's observations
Forget ==
    /\ ev' = NoEvent
    /\ ret' = Nil
    /\ calls' = <<>>
    /\ flushes' = 0
    /\ echoFlushes' = 0
    /\ UNCHANGED <<applied, waiting, pending, turn>>

\* the handler is given one secret event.  The answers of the secret client
\* and of the status writer are inputs; an answer to a call the invocation
\* does not make is not an input of it.
ProcessSecretEvent ==
    \E e \in Events, storeFault \in StoreFaults, statusFault \in StatusFaults :
        \E o \in {processSecretEvent(managementState, upserts, cond, secretRetryCount,
                                     source, mirror, e.secret, e.deleted,
                                     storeFault, statusFault)} :
            /\ storeFault # "none" => \E i \in 1..Len(o.calls) : Faulted(o.calls[i], storeFault)
            /\ statusFault => o.flushes > 0
            /\ cond' = o.cond
            /\ secretRetryCount' = o.secretRetryCount
            /\ mirror' = o.mirror
            /\ ev' = e
            /\ ret' = o.ret
            /\ calls' = o.calls
            /\ flushes' = o.flushes
            /\ echoFlushes' = IF ~IsEcho(e) THEN 0
                              ELSE IF ev # e THEN o.flushes
                              ELSE IF echoFlushes + o.flushes > MaxEchoFlushes
                              THEN MaxEchoFlushes
                              ELSE echoFlushes + o.flushes
            /\ waiting' = NoWaiting
            /\ UNCHANGED <<managementState, upserts, source, applied, pending, turn>>

\* the administrator edits the management state of the Config
SetManagementState ==
    /\ \E ms \in ManagementStates : ms # managementState /\ managementState' = ms
    /\ Forget
    /\ UNCHANGED <<upserts, cond, secretRetryCount, source, mirror>>

\* the imagestream/template cycle starts an upsert
UpsertBegin ==
    /\ upserts < MaxUpserts
    /\ upserts' = upserts + 1
    /\ Forget
    /\ UNCHANGED <<managementState, cond, secretRetryCount, source, mirror>>

\* the imagestream/template cycle finishes an upsert
UpsertEnd ==
    /\ upserts > 0
    /\ upserts' = upserts - 1
    /\ Forget
    /\ UNCHANGED <<managementState, cond, secretRetryCount, source, mirror>>

\* somebody creates, replaces or deletes the pull secret in kube-system
SourceChanged ==
    /\ \E s \in SourceSecrets \cup {None} : s # source /\ source' = s
    /\ Forget
    /\ UNCHANGED <<managementState, upserts, cond, secretRetryCount, mirror>>

\* somebody other than the operator writes or deletes the secret in the mirror slot
MirrorChanged ==
    /\ \E m \in ForeignMirrors \cup {None} :
           m # mirror /\ mirror' = m
    /\ Forget
    /\ UNCHANGED <<managementState, upserts, cond, secretRetryCount, source>>

\* the Config reconciliation asks whether it has to wait for the credential;
\* cfg.ClusterNeedsCreds() is derived from the Config outside this file
CallWaitingForCredential ==
    \E clusterNeedsCreds \in BOOLEAN :
        \E w \in {WaitingForCredential(clusterNeedsCreds, cond)} :
            /\ cond' = w.cond
            /\ waiting' = [needs |-> clusterNeedsCreds,
                           block |-> w.block,
                           flush |-> w.flush,
                           flushed |-> IF ~w.flush THEN Flushed(waiting)
                                       ELSE IF Flushed(waiting) >= MaxWaitFlushes
                                       THEN MaxWaitFlushes
                                       ELSE Flushed(waiting) + 1]
            /\ ev' = NoEvent
            /\ ret' = Nil
            /\ calls' = <<>>
            /\ flushes' = 0
            /\ echoFlushes' = 0
            /\ UNCHANGED <<managementState, upserts, secretRetryCount, source, mirror,
                           applied, pending, turn>>

Next ==
    \/ ProcessSecretEvent
    \/ CallWaitingForCredential
    \/ SetManagementState
    \/ UpsertBegin
    \/ UpsertEnd
    \/ SourceChanged
    \/ MirrorChanged

Spec == Init /\ [][Next]_vars

----------------------------------------------------------------------------
(* Vocabulary of the properties *)

\* the step is an invocation of processSecretEvent
Handled == ev' # NoEvent

IsMirror(secret) ==
    secret.name = SamplesRegistryCredentials /\ secret.namespace = OpenshiftNamespace

IsSource(secret) ==
    secret.name = coreosPullSecretName /\ secret.namespace = coreosPullSecretNamespace

\* the invocation called nothing and changed nothing but, possibly, the counter
Untouched ==
    /\ cond' = cond
    /\ mirror' = mirror
    /\ source' = source
    /\ calls' = <<>>
    /\ flushes' = 0

----------------------------------------------------------------------------
(* C1: while the upsert counter is above zero an invocation returns the    *)
(* retry error and calls no secret client method, leaves the condition and *)
(* secretRetryCount alone and does not call UpdateStatus, whatever the     *)
(* management state, the secret and the deleted flag.                      *)
BusyGate ==
    [][(Handled /\ upserts > 0)
         => (ret' = ErrBusy /\ Untouched /\ secretRetryCount' = secretRetryCount)]_vars

\* a deletion of the mirror secret was turned away in removed state
BusyGateWitness ==
    /\ upserts > 0
    /\ ev # NoEvent
    /\ ev.deleted
    /\ IsMirror(ev.secret)
    /\ managementState = "Removed"
    /\ ConditionTrue(cond)
    /\ ret = ErrBusy

(* C2: in Unmanaged state, with no upsert in flight, an invocation returns *)
(* success and leaves the condition, the store and secretRetryCount alone  *)
(* and does not call UpdateStatus.                                         *)
UnmanagedIgnores ==
    [][(Handled /\ upserts = 0 /\ managementState = "Unmanaged")
         => (ret' = Nil /\ Untouched /\ secretRetryCount' = secretRetryCount)]_vars

\* a created source secret was ignored while the condition was not True
UnmanagedIgnoresWitness ==
    /\ upserts = 0
    /\ managementState = "Unmanaged"
    /\ ev # NoEvent
    /\ IsSource(ev.secret)
    /\ ~ev.deleted
    /\ ~ConditionTrue(cond)
    /\ mirror = None
    /\ ret = Nil

(* C3: with the condition True, outside removed state and with no upsert   *)
(* in flight, a delete event for the mirror secret met with a counter      *)
(* below 3 returns the retry error, adds one to the counter, leaves the    *)
(* condition True, calls no secret client method and does not flush: from  *)
(* 0 three deliveries in a row give 1, 2 and 3.                            *)
RetryWindow ==
    [][(/\ Handled
        /\ ev'.deleted
        /\ IsMirror(ev'.secret)
        /\ upserts = 0
        /\ managementState \in {"Managed", "Unrecognized"}
        /\ ConditionTrue(cond)
        /\ secretRetryCount < 3)
         => (/\ ret' = ErrRetryDeletion
             /\ secretRetryCount' = secretRetryCount + 1
             /\ Untouched
             /\ ConditionTrue(cond'))]_vars

\* the third delivery in a row has been answered
RetryWindowWitness ==
    /\ ev # NoEvent
    /\ ev.deleted
    /\ IsMirror(ev.secret)
    /\ managementState = "Managed"
    /\ ConditionTrue(cond)
    /\ ret = ErrRetryDeletion
    /\ secretRetryCount = 3
    /\ flushes = 0

----------------------------------------------------------------------------
(* C4 *)

\* the delete event of the mirror secret is handled with the condition True
\* and no upsert in flight
MirrorDeleteWhileTrue ==
    /\ Handled
    /\ ev'.deleted
    /\ IsMirror(ev'.secret)
    /\ upserts = 0
    /\ ConditionTrue(cond)

(* C4 as stated: with the condition True, the fourth delete event of the   *)
(* mirror secret outside removed state, or the first one in removed state, *)
(* makes the condition False and flushes the status exactly once.          *)
FinalizeAsStated ==
    [][(/\ MirrorDeleteWhileTrue
        /\ \/ managementState \in {"Managed", "Unrecognized"} /\ secretRetryCount = 3
           \/ managementState = "Removed")
         => (cond'.status = "False" /\ flushes' = 1)]_vars

(* C4 as amended: with the condition True, the first three delete events   *)
(* of the mirror secret get the retry error in removed state as outside    *)
(* it.  The fourth one in removed state makes the condition False and      *)
(* flushes exactly once, with no secret client call.  The fourth one       *)
(* outside removed state fetches the source secret to recreate the mirror: *)
(* the condition becomes False, with exactly one flush, exactly when that  *)
(* fetch reports NotFound, and when the copy succeeds the condition stays  *)
(* True and nothing is flushed.                                            *)
FinalizeMirrorDeletion ==
    [][MirrorDeleteWhileTrue =>
         /\ (managementState = "Removed" /\ secretRetryCount < 3)
              => (ret' = ErrRetryDeletion /\ Untouched
                  /\ secretRetryCount' = secretRetryCount + 1)
         /\ (managementState = "Removed" /\ secretRetryCount = 3)
              => (/\ cond'.status = "False"
                  /\ flushes' = 1
                  /\ calls' = <<>>
                  /\ mirror' = mirror
                  /\ ret' \in {Nil, ErrStatus})
         /\ (managementState \in {"Managed", "Unrecognized"} /\ secretRetryCount = 3)
              => (/\ Len(calls') >= 1
                  /\ calls'[1].op = "Get"
                  /\ calls'[1].namespace = coreosPullSecretNamespace
                  /\ calls'[1].name = coreosPullSecretName
                  /\ cond'.status = "False" <=> calls'[1].result = ErrNotFound
                  /\ cond'.status = "False" => (flushes' = 1 /\ Len(calls') = 1)
                  /\ (calls'[Len(calls')].op \in {"Create", "Update"}
                      /\ calls'[Len(calls')].result = Nil)
                       => (cond' = cond /\ flushes' = 0 /\ ret' = Nil
                           /\ mirror' # None))]_vars

\* the fourth delete event in removed state has been accepted
FinalizeMirrorDeletionWitness ==
    /\ ev # NoEvent
    /\ ev.deleted
    /\ IsMirror(ev.secret)
    /\ managementState = "Removed"
    /\ secretRetryCount = 3
    /\ cond.status = "False"
    /\ flushes = 1
    /\ ret = Nil

----------------------------------------------------------------------------
(* C5: after every invocation that ends with anything but the busy error   *)
(* or the deletion retry error, secretRetryCount is 0; the returns inside  *)
(* the openshift namespace block (annotated echo, secret without the       *)
(* annotation, deletion accepted in removed state) are such outcomes.      *)
RetryCounterReset ==
    (ev # NoEvent /\ ret \notin {ErrBusy, ErrRetryDeletion}) => secretRetryCount = 0

----------------------------------------------------------------------------
(* C6: deliveries of the annotated non-delete event of the mirror secret   *)
(* flush the status at most once in total, however many they are.  One     *)
(* that the openshift namespace block handles while the condition is True  *)
(* changes nothing, calls nothing and returns success; one it handles      *)
(* while the condition is not True sets it True and flushes exactly once.  *)
EchoIdempotence ==
    /\ [](echoFlushes <= 1)
    /\ [][(Handled /\ IsEcho(ev') /\ IsMirror(ev'.secret))
            => /\ ConditionTrue(cond)
                    => (Untouched /\ secretRetryCount' = secretRetryCount)
               /\ (upserts = 0 /\ managementState # "Unmanaged")
                    => /\ ConditionTrue(cond')
                       /\ calls' = <<>>
                       /\ mirror' = mirror
                       /\ flushes' = (IF ConditionTrue(cond) THEN 0 ELSE 1)
                       /\ ConditionTrue(cond) => ret' = Nil
                       /\ ~ConditionTrue(cond) => ret' \in {Nil, ErrStatus}]_vars

\* the echo was delivered again after the delivery that flushed
EchoIdempotenceWitness ==
    /\ IsEcho(ev)
    /\ IsMirror(ev.secret)
    /\ upserts = 0
    /\ managementState = "Managed"
    /\ echoFlushes = 1
    /\ flushes = 0
    /\ ConditionTrue(cond)
    /\ ret = Nil

----------------------------------------------------------------------------
(* C7, C8, C9 *)

\* no call of the invocation failed; AlreadyExists from Create is the
\* answer that sends the copy to Update, not a failure
StoreCallsSucceed(cs) ==
    \A i \in 1..Len(cs) : cs[i].result \in {Nil, ErrAlreadyExists}

\* the call writes the data d to the mirror slot under the version annotation
MirrorWrite(c, d) ==
    /\ c.namespace = OpenshiftNamespace
    /\ c.name = SamplesRegistryCredentials
    /\ c.annotations = {<<SamplesVersionAnnotation, Version>>}
    /\ c.data = d

(* C7: in Managed state, with no upsert in flight and the store calls      *)
(* succeeding, a non-delete event of the source secret handled while the   *)
(* condition is not True issues a Create of the mirror secret in openshift *)
(* under the mirror name, with the version annotation and the data of the  *)
(* event's secret, leaves that secret in the store, sets the condition     *)
(* True and calls UpdateStatus exactly once.                               *)
SourceCreated ==
    [][(/\ Handled
        /\ IsSource(ev'.secret)
        /\ ~ev'.deleted
        /\ managementState = "Managed"
        /\ upserts = 0
        /\ ~ConditionTrue(cond)
        /\ StoreCallsSucceed(calls'))
         => (/\ Len(calls') >= 1
             /\ calls'[1].op = "Create"
             /\ \A i \in 1..Len(calls') : MirrorWrite(calls'[i], ev'.secret.data)
             /\ calls'[Len(calls')].result = Nil
             /\ mirror' = Secret(SamplesRegistryCredentials, OpenshiftNamespace,
                                 {<<SamplesVersionAnnotation, Version>>},
                                 ev'.secret.data)
             /\ cond' = Condition("True", "")
             /\ flushes' = 1
             /\ ret' \in {Nil, ErrStatus})]_vars

\* the mirror was created from the event's secret and the condition reported
SourceCreatedWitness ==
    /\ ev # NoEvent
    /\ IsSource(ev.secret)
    /\ ~ev.deleted
    /\ managementState = "Managed"
    /\ Len(calls) = 1
    /\ calls[1].op = "Create"
    /\ calls[1].result = Nil
    /\ mirror # None
    /\ mirror.data = ev.secret.data
    /\ ConditionTrue(cond)
    /\ flushes = 1
    /\ ret = Nil

(* C8: outside Unmanaged state and with no upsert in flight, a non-delete  *)
(* event of a secret in the mirror slot without the version annotation     *)
(* makes the condition Unknown with a non-empty message, and UpdateStatus  *)
(* is called exactly once in that invocation.                              *)
UnstampedMirrorReported ==
    [][(/\ Handled
        /\ IsMirror(ev'.secret)
        /\ ~ev'.deleted
        /\ ~HasKey(ev'.secret.annotations, SamplesVersionAnnotation)
        /\ managementState # "Unmanaged"
        /\ upserts = 0)
         => (/\ cond'.status = "Unknown"
             /\ cond'.message # ""
             /\ flushes' = 1)]_vars

(* C9: every Create and Update the handler issues targets the openshift    *)
(* namespace and the mirror name and carries exactly the version           *)
(* annotation with the operator's version as its value, whatever the       *)
(* secret it copies carried; the handler deletes nothing but the mirror    *)
(* and never writes the source secret.                                     *)
MirrorWriteInvariant ==
    /\ [](\A i \in 1..Len(calls) :
            /\ calls[i].op \in {"Create", "Update"}
                 => /\ calls[i].namespace = OpenshiftNamespace
                    /\ calls[i].name = SamplesRegistryCredentials
                    /\ calls[i].annotations = {<<SamplesVersionAnnotation, Version>>}
            /\ calls[i].op = "Delete"
                 => /\ calls[i].namespace = OpenshiftNamespace
                    /\ calls[i].name = SamplesRegistryCredentials
            /\ calls[i].op = "Get"
                 => /\ calls[i].namespace = coreosPullSecretNamespace
                    /\ calls[i].name = coreosPullSecretName)
    /\ [](mirror # None /\ Len(calls) > 0 /\ calls[Len(calls)].op \in {"Create", "Update"}
          /\ calls[Len(calls)].result = Nil
            => /\ mirror.name = SamplesRegistryCredentials
               /\ mirror.namespace = OpenshiftNamespace
               /\ mirror.annotations = {<<SamplesVersionAnnotation, Version>>}
               /\ mirror.data = calls[Len(calls)].data)
    /\ [][Handled => source' = source]_vars

\* a fetched source secret that carries another annotation replaced a
\* secret in the mirror slot
MirrorWriteInvariantWitness ==
    /\ ev # NoEvent
    /\ Len(calls) = 3
    /\ calls[1].op = "Get"
    /\ calls[2].op = "Create"
    /\ calls[2].result = ErrAlreadyExists
    /\ calls[3].op = "Update"
    /\ calls[3].result = Nil
    /\ source # None
    /\ source.annotations = {<<"owner", "admin">>}
    /\ mirror.annotations = {<<SamplesVersionAnnotation, Version>>}
    /\ mirror.data = source.data

----------------------------------------------------------------------------
(* copyDefaultClusterPullSecret on its own: the function is applied up to  *)
(* MaxApply times in a row to a store nobody else writes.                  *)

InitCopy ==
    /\ managementState = "Managed"
    /\ upserts = 0
    /\ cond = Condition("Unknown", "")
    /\ secretRetryCount = 0
    /\ source \in SourceSecrets \cup {None}
    /\ mirror \in ForeignMirrors \cup {None}
    /\ ev = NoEvent
    /\ ret = Nil
    /\ calls = <<>>
    /\ flushes = 0
    /\ echoFlushes = 0
    /\ applied = <<>>
    /\ waiting = NoWaiting
    /\ pending = {}
    /\ turn = 0

Apply(secret, storeFault) ==
    \E r \in {copyDefaultClusterPullSecret(secret, source, mirror, storeFault)} :
        /\ Len(applied) < MaxApply
        /\ storeFault # "none" => \E i \in 1..Len(r.calls) : Faulted(r.calls[i], storeFault)
        /\ mirror' = r.mirror
        /\ ret' = r.err
        /\ calls' = r.calls
        /\ applied' = Append(applied, [secret |-> secret, err |-> r.err, calls |-> r.calls])
        /\ UNCHANGED <<managementState, upserts, cond, secretRetryCount, source,
                       ev, flushes, echoFlushes, waiting, pending, turn>>

\* the caller supplies the source secret
CopySupplied ==
    \E e \in Events, storeFault \in StoreFaults :
        /\ IsSource(e.secret)
        /\ ~e.deleted
        /\ Apply(e.secret, storeFault)

\* the caller passes nil and the source secret is fetched
CopyFetched ==
    \E storeFault \in StoreFaults : Apply(None, storeFault)

NextCopy ==
    \/ CopySupplied
    \/ CopyFetched

SpecCopy == InitCopy /\ [][NextCopy]_vars

\* the calls of the given kind with the given result, in order
CallsOf(cs, op, result) ==
    SelectSeq(cs, LAMBDA c : c.op = op /\ c.result = result)

(* C10: when an application of copyDefaultClusterPullSecret that created   *)
(* the mirror is followed by a second application to a source secret, the  *)
(* second one's Create reports AlreadyExists and it falls back to one      *)
(* Update with the payload of that Create; with the store calls            *)
(* succeeding, the two applications make exactly one successful Create and *)
(* one Update, both return success, and the mirror ends with the data of   *)
(* the second secret and only the version annotation.                      *)
RoundTrip ==
    (/\ Len(applied) >= 2
     /\ CallsOf(applied[1].calls, "Create", Nil) # <<>>
     /\ \E i \in 1..Len(applied[2].calls) : applied[2].calls[i].op = "Create"
     /\ StoreCallsSucceed(applied[2].calls))
      => LET both == applied[1].calls \o applied[2].calls
             second == applied[2].calls
             n == Len(second)
         IN  /\ applied[1].err = Nil
             /\ applied[2].err = Nil
             /\ Len(CallsOf(both, "Create", Nil)) = 1
             /\ Len(SelectSeq(both, LAMBDA c : c.op = "Create")) = 2
             /\ Len(SelectSeq(both, LAMBDA c : c.op = "Update")) = 1
             /\ n >= 2
             /\ second[n - 1].op = "Create"
             /\ second[n - 1].result = ErrAlreadyExists
             /\ second[n].op = "Update"
             /\ second[n].result = Nil
             /\ [second[n] EXCEPT !.op = "Create", !.result = ErrAlreadyExists]
                  = second[n - 1]
             /\ Len(applied) = 2
                  => mirror = Secret(SamplesRegistryCredentials, OpenshiftNamespace,
                                     {<<SamplesVersionAnnotation, Version>>},
                                     second[n].data)

\* a supplied secret was copied into an empty slot and another one after it
RoundTripWitness ==
    /\ Len(applied) = 2
    /\ applied[1].secret # None
    /\ applied[2].secret # None
    /\ applied[1].secret.data # applied[2].secret.data
    /\ applied[1].calls # <<>>
    /\ applied[1].calls[1].op = "Create"
    /\ applied[1].calls[1].result = Nil
    /\ Len(applied[2].calls) = 2
    /\ applied[2].calls[2].op = "Update"
    /\ applied[2].calls[2].result = Nil
    /\ mirror # None
    /\ mirror.data = applied[2].secret.data
    /\ mirror.annotations = {<<SamplesVersionAnnotation, Version>>}

----------------------------------------------------------------------------
(* C11: an invocation for a secret that is neither the source secret nor   *)
(* the mirror secret, a secret of the openshift namespace under another    *)
(* name included, calls no secret client method, leaves the condition      *)
(* alone, does not call UpdateStatus and returns no error, in every        *)
(* management state and for either value of the deleted flag (once past    *)
(* the check of the upsert counter).                                       *)
RelevanceFilter ==
    [][(/\ Handled
        /\ ~IsSource(ev'.secret)
        /\ ~IsMirror(ev'.secret)
        /\ upserts = 0)
         => (ret' = Nil /\ Untouched)]_vars

----------------------------------------------------------------------------
(* C12 *)

\* the invocation met an error while it handled the event: a secret client
\* call failed, or the secret lacked the version annotation
ErrorMet ==
    \/ \E i \in 1..Len(calls') : calls'[i].result = ErrServer
    \/ ret' = ErrNoAnnotation

(* C12: an invocation that ends with neither the busy error nor the        *)
(* deletion retry error calls UpdateStatus exactly when it changed the     *)
(* condition or met an error, and never more than once; one that leaves    *)
(* the condition as it was and meets no error, such as the delete event of *)
(* the mirror in removed state with the condition already False, does not  *)
(* call UpdateStatus.                                                      *)
FlushDiscipline ==
    [][(Handled /\ ret' \notin {ErrBusy, ErrRetryDeletion})
         => (/\ flushes' <= 1
             /\ flushes' = 1 <=> (cond' # cond \/ ErrorMet))]_vars

----------------------------------------------------------------------------
----------------------------------------------------------------------------
(* C15: in Managed state, when a delete event of the mirror secret gets to *)
(* manageDockerCfgSecret (the condition is not True, or the retries are    *)
(* used up) and the Get of the source secret reports NotFound, no mirror   *)
(* is written, the condition is False and not Unknown, no store error is   *)
(* returned, and the status is flushed exactly when the status of the      *)
(* condition changed.  When the Get returns the source secret and the      *)
(* store calls succeed, the mirror is written from the fetched secret and  *)
(* the condition is True.                                                  *)
MirrorDeletedSourceGone ==
    [][(/\ Handled
        /\ managementState = "Managed"
        /\ upserts = 0
        /\ IsMirror(ev'.secret)
        /\ ev'.deleted
        /\ (~ConditionTrue(cond) \/ secretRetryCount >= 3))
         => (/\ Len(calls') >= 1
             /\ calls'[1].op = "Get"
             /\ secretRetryCount' = 0
             /\ calls'[1].result = ErrNotFound
                  => (/\ source = None
                      /\ Len(calls') = 1
                      /\ mirror' = mirror
                      /\ cond'.status = "False"
                      /\ ret' \in {Nil, ErrStatus}
                      /\ flushes' = (IF cond.status = "False" THEN 0 ELSE 1)
                      /\ flushes' = 0 => ret' = Nil)
             /\ (/\ calls'[1].result = Nil
                 /\ calls'[1].data # NothingFetched
                 /\ StoreCallsSucceed(calls'))
                  => (/\ source # None
                      /\ mirror' = Secret(SamplesRegistryCredentials, OpenshiftNamespace,
                                          {<<SamplesVersionAnnotation, Version>>},
                                          source.data)
                      /\ cond'.status = "True"
                      /\ flushes' = (IF cond.status = "True" THEN 0 ELSE 1)))]_vars

\* the mirror was deleted with the source gone and the condition True: the
\* fourth delivery made the condition False and flushed it
MirrorDeletedSourceGoneWitness ==
    /\ managementState = "Managed"
    /\ ev # NoEvent
    /\ IsMirror(ev.secret)
    /\ ev.deleted
    /\ source = None
    /\ mirror = None
    /\ Len(calls) = 1
    /\ calls[1].result = ErrNotFound
    /\ cond = Condition("False", "")
    /\ flushes = 1
    /\ ret = Nil

----------------------------------------------------------------------------
(* C16: in Managed state with no upsert in flight, a delete event of the   *)
(* source secret makes the handler delete the mirror secret from the       *)
(* openshift namespace, NotFound from that Delete counting as success; the *)
(* mirror is then absent from the store, the condition is False, and the   *)
(* status is flushed exactly when the status of the condition was not      *)
(* False already.                                                          *)
SourceDeleted ==
    [][(/\ Handled
        /\ managementState = "Managed"
        /\ upserts = 0
        /\ IsSource(ev'.secret)
        /\ ev'.deleted
        /\ \A i \in 1..Len(calls') : calls'[i].result # ErrServer)
         => (/\ Len(calls') = 1
             /\ calls'[1].op = "Delete"
             /\ calls'[1].namespace = OpenshiftNamespace
             /\ calls'[1].name = SamplesRegistryCredentials
             /\ calls'[1].result = (IF mirror = None THEN ErrNotFound ELSE Nil)
             /\ mirror' = None
             /\ source' = source
             /\ cond'.status = "False"
             /\ flushes' = (IF cond.status = "False" THEN 0 ELSE 1)
             /\ ret' \in {Nil, ErrStatus}
             /\ flushes' = 0 => ret' = Nil)]_vars

\* the source was deleted when the mirror was already gone and the
\* condition True: NotFound was passed over and False flushed
SourceDeletedWitness ==
    /\ managementState = "Managed"
    /\ ev # NoEvent
    /\ IsSource(ev.secret)
    /\ ev.deleted
    /\ Len(calls) = 1
    /\ calls[1].op = "Delete"
    /\ calls[1].result = ErrNotFound
    /\ mirror = None
    /\ cond = Condition("False", "")
    /\ flushes = 1
    /\ ret = Nil

----------------------------------------------------------------------------
(* C17: in Managed state, when a secret client call of the copy or of the  *)
(* delete fails with an error that is not passed over, the condition is    *)
(* Unknown with the error as its message, UpdateStatus is called exactly   *)
(* once, also when the condition was Unknown already, and the invocation   *)
(* returns what UpdateStatus returned, not the store error.                *)
StoreFailureReported ==
    [][(/\ Handled
        /\ managementState = "Managed"
        /\ upserts = 0
        /\ \E i \in 1..Len(calls') : calls'[i].result = ErrServer)
         => (/\ calls'[Len(calls')].result = ErrServer
             /\ cond'.status = "Unknown"
             /\ cond'.message = ErrServer
             /\ cond'.message # ""
             /\ flushes' = 1
             /\ ret' \in {Nil, ErrStatus}
             /\ secretRetryCount' = 0)]_vars

\* the Update of the mirror failed while the condition was Unknown with
\* that error already: the status was written again and success returned
StoreFailureReportedWitness ==
    /\ managementState = "Managed"
    /\ ev # NoEvent
    /\ ev = [secret |-> Secret(coreosPullSecretName, coreosPullSecretNamespace,
                               AnnOther, "auth-b"),
             deleted |-> FALSE]
    /\ echoFlushes = 0
    /\ Len(calls) = 2
    /\ calls[2].op = "Update"
    /\ calls[2].result = ErrServer
    /\ cond = Condition("Unknown", ErrServer)
    /\ flushes = 1
    /\ ret = Nil

----------------------------------------------------------------------------
(* C18: whenever manageDockerCfgSecret turns the condition True, a Create  *)
(* or an Update of the mirror secret succeeded in the same invocation and  *)
(* the mirror is in the store, also when the fetch of the source secret    *)
(* answered with no secret and no error.                                   *)
TrueBackedByWrite ==
    [][(/\ Handled
        /\ managementState \notin {"Unmanaged", "Removed"}
        /\ upserts = 0
        /\ ~(ev'.secret.namespace = OpenshiftNamespace /\ ~ev'.deleted)
        /\ ~ConditionTrue(cond)
        /\ ConditionTrue(cond'))
         => (/\ \E i \in 1..Len(calls') :
                  /\ calls'[i].op \in {"Create", "Update"}
                  /\ calls'[i].result = Nil
             /\ mirror' # None)]_vars

----------------------------------------------------------------------------
(* C13: WaitingForCredential returns (false, false) and leaves the         *)
(* condition alone when the cluster needs no credentials; when it needs    *)
(* them it returns block = true, and it returns flush = false with the     *)
(* condition unchanged exactly when the condition is False with a          *)
(* non-empty message already, and otherwise leaves the condition False     *)
(* with a non-empty message and returns flush = true; the calls between    *)
(* two secret events ask for one flush at most.                            *)
\* the step is a call of WaitingForCredential: every other step either
\* forgets the calls or moves the Config or the store
WaitingCalled ==
    /\ waiting' # NoWaiting
    /\ managementState' = managementState
    /\ upserts' = upserts
    /\ source' = source
    /\ mirror' = mirror

WaitingDecision ==
    [][WaitingCalled
         => (/\ ~waiting'.needs =>
                   (~waiting'.block /\ ~waiting'.flush /\ cond' = cond)
             /\ waiting'.needs =>
                   /\ waiting'.block
                   /\ (cond.status = "False" /\ cond.message # "")
                        => (~waiting'.flush /\ cond' = cond)
                   /\ ~(cond.status = "False" /\ cond.message # "")
                        => (/\ waiting'.flush
                            /\ cond'.status = "False"
                            /\ cond'.message # "")
             /\ waiting'.flushed <= 1)]_vars

----------------------------------------------------------------------------
(* C20: when an invocation changed the condition in memory and its         *)
(* UpdateStatus failed, the failure is what the invocation returns, and    *)
(* the delivery of the same event again, to the same Config object, calls  *)
(* UpdateStatus again.                                                     *)
StatusWriteRetried ==
    [][(/\ Handled
        /\ ev' = ev
        /\ ret = ErrStatus
        /\ flushes = 1
        /\ upserts = 0)
         => flushes' = 1]_vars

----------------------------------------------------------------------------
(* The watch: in Managed state, with the source secret in place, no upsert *)
(* in flight and every call succeeding, the events still to be delivered   *)
(* are handled in any order.  An event whose handling returns an error     *)
(* stays pending; a change of the mirror secret adds the event the watch   *)
(* reports for it.                                                         *)

SourceEvent(d) ==
    [secret |-> Secret(coreosPullSecretName, coreosPullSecretNamespace, AnnOther, d),
     deleted |-> FALSE]

SourceDeleteEvent ==
    [secret |-> Secret(coreosPullSecretName, coreosPullSecretNamespace, AnnNone, NoData),
     deleted |-> TRUE]

MirrorDeleteEvent ==
    [secret |-> Secret(SamplesRegistryCredentials, OpenshiftNamespace, AnnNone, NoData),
     deleted |-> TRUE]

MirrorEchoEvent ==
    [secret |-> Secret(SamplesRegistryCredentials, OpenshiftNamespace, AnnStamp, NoData),
     deleted |-> FALSE]

MirrorUnstampedEvent ==
    [secret |-> Secret(SamplesRegistryCredentials, OpenshiftNamespace, AnnOther, NoData),
     deleted |-> FALSE]

\* events left over from the history of the two secrets
StaleEvents ==
    {SourceEvent(d) : d \in DataValues}
        \cup {SourceDeleteEvent, MirrorDeleteEvent, MirrorEchoEvent, MirrorUnstampedEvent}

\* what the watch reports when the handler changed the mirror from m to n
WatchEvents(m, n) ==
    IF n = m THEN {}
    ELSE IF n = None THEN {MirrorDeleteEvent}
    ELSE {MirrorEchoEvent}

InitConverge ==
    /\ managementState = "Managed"
    /\ upserts = 0
    /\ cond \in Conditions
    /\ secretRetryCount = 0
    /\ source \in SourceSecrets
    /\ mirror \in StampedMirrors \cup {None}
    /\ ev = NoEvent
    /\ ret = Nil
    /\ calls = <<>>
    /\ flushes = 0
    /\ echoFlushes = 0
    /\ applied = <<>>
    /\ waiting = NoWaiting
    /\ pending \in {p \in SUBSET StaleEvents : SourceEvent(source.data) \in p}
    /\ turn = 0

\* the watch delivers the pending event e
DeliverEvent(e) ==
    /\ e \in pending
    /\ \E o \in {processSecretEvent(managementState, upserts, cond, secretRetryCount,
                                    source, mirror, e.secret, e.deleted, "none", FALSE)} :
           /\ cond' = o.cond
           /\ secretRetryCount' = o.secretRetryCount
           /\ mirror' = o.mirror
           /\ ev' = e
           /\ ret' = o.ret
           /\ calls' = o.calls
           /\ flushes' = o.flushes
           /\ pending' = (IF o.ret = Nil THEN pending \ {e} ELSE pending)
                             \cup WatchEvents(mirror, o.mirror)
           /\ turn' = 1 - turn
           /\ UNCHANGED <<managementState, upserts, source, echoFlushes, applied, waiting>>

NextConverge == \E e \in StaleEvents : DeliverEvent(e)

\* every pending event is delivered in the end
SpecConverge ==
    /\ InitConverge
    /\ [][NextConverge]_vars
    /\ \A e \in StaleEvents : WF_vars(DeliverEvent(e))

Synced == mirror \in StampedMirrors /\ ConditionTrue(cond)

(* C19: after any set of stale events the mirror secret ends up in the     *)
(* store with the version annotation and the condition True, for good.     *)
Converges == <>[]Synced

====
